---- MODULE Spec2Model ----
(***************************************************************************)
(* prepack: a reversible byte-stream preprocessor (src/prepack.c and its   *)
(* refactoring src/prepack_lite.c).  The model follows main(): argument    *)
(* check, fopen of both streams, the sampling scan over the 15 candidates, *)
(* the selection of the least-entropy candidate, the commit encode pass    *)
(* and the decode pass, one action per loop iteration (one block).         *)
(*                                                                         *)
(* Bytes are 0..255 and every byte-typed assignment is reduced modulo 256. *)
(* The block size and the stride factor are scaled down; the block size    *)
(* keeps the divisibility of 24576 by the channel counts 1..8 (divisible   *)
(* by 1,2,3,4,6,8, not by 5 or 7).                                         *)
(***************************************************************************)
EXTENDS Integers, Sequences, FiniteSets, TLC

VARIABLES
    variant,            \* "full" = prepack.c, "lite" = prepack_lite.c
    argc, mode,         \* the command line: argc and argv[1][0]
    inOpenable, outOpenable, \* whether fopen of argv[2] / argv[3] succeeds
    input,              \* content of the input file
    pc, status,         \* position in main and the value it returns
    inS, outS,          \* the streams in / out: "unopened", "open", "closed"
    pos, eofIn,         \* read position and end-of-file indicator of in
    inErr, outErr,      \* error indicators of in / out
    outFile,            \* bytes written to the output file so far
    previous, previousByte, secondPreviousByte, weight, d,  \* filter globals
    routed,             \* history: number of calls of modulo() so far
    freq, fileLength,   \* histograms and the divisor of calcEntropy
    chanEnt,            \* history: the entropies findSmallestChannel computed
    scanLanes,          \* history: per candidate, the lanes modulo() gave the
                        \* first byte of the block scanned last and the last
                        \* byte scanned so far (-1: none yet)
    channel, ch,        \* selected / read candidate index and its channel count
    tableOOB,           \* history: indexToChannel was read outside 0..14
    orig,               \* codec driver: the data handed to the encoder
    decRegs,            \* lock-step driver: the filter globals of the decoder
    laneSeq,            \* router driver: the values modulo() returned so far
    err                 \* weight driver: the residual of the last updateWeight

vars == <<variant, argc, mode, inOpenable, outOpenable, input, pc, status,
          inS, outS, pos, eofIn, inErr, outErr, outFile,
          previous, previousByte, secondPreviousByte, weight, d, routed,
          freq, fileLength, chanEnt, scanLanes, channel, ch, tableOOB, orig, decRegs,
          laneSeq, err>>

(***************************************************************************)
(* Program constants.                                                      *)
(***************************************************************************)
totalChannels == 15
breakpoint == 10
rate == 6
liteScanBreak == 7
indexToChannel == [i \in 0..14 |->
    <<0, 1, 2, 3, 4, 5, 6, 7, 8, 1, 2, 3, 4, 6, 8>>[i + 1]]

(***************************************************************************)
(* Scaled sizes and the bounds of the inputs.                              *)
(***************************************************************************)
\* #define blocksize 24576, scaled: the least size with the same divisors in 1..8
blocksize == 24
\* #define boost 24, scaled
boost == 2
\* longest input of the exhaustive family
MaxLen == 3

Byte == 0..255
Lanes == 0..7

Min(a, b) == IF a < b THEN a ELSE b

\* TLC evaluates operator arguments on demand; Eager(x, e) has x evaluated
\* before e, so that a loop over a block does not pile up pending values
Eager(x, e) == IF x = x THEN e ELSE e

(***************************************************************************)
(* The filter globals as one record, threaded through the pure operators.  *)
(***************************************************************************)
Regs == [previous |-> previous, previousByte |-> previousByte,
         secondPreviousByte |-> secondPreviousByte, weight |-> weight,
         d |-> d, routed |-> routed]

ZeroLanes == [i \in Lanes |-> 0]

\* the "reset variables" loop without the assignment weight = 0
ResetVariablesLanesOnly(s) == [s EXCEPT !.previous = ZeroLanes,
                                        !.previousByte = ZeroLanes,
                                        !.secondPreviousByte = ZeroLanes]

\* the "reset variables" loop: lane histories and weight, not d
ResetVariables(s) == [s EXCEPT !.previous = ZeroLanes,
                               !.previousByte = ZeroLanes,
                               !.secondPreviousByte = ZeroLanes,
                               !.weight = 0]

\* zero-initialised globals of a fresh process
FreshRegs == [previous |-> ZeroLanes, previousByte |-> ZeroLanes,
              secondPreviousByte |-> ZeroLanes, weight |-> 0, d |-> 0,
              routed |-> 0]

(***************************************************************************)
(* Delta filter.                                                           *)
(***************************************************************************)
deltaEnc(s, b, i) ==
    [s |-> [s EXCEPT !.previous[i] = b],
     out |-> (s.previous[i] - b) % 256]

\* deltaDec keeping the residual, not the decoded byte, as history
deltaDecStale(s, delta, i) ==
    [s |-> [s EXCEPT !.previous[i] = delta],
     out |-> (s.previous[i] - delta) % 256]

deltaDec(s, delta, i) ==
    LET b == (s.previous[i] - delta) % 256
    IN  [s |-> [s EXCEPT !.previous[i] = b], out |-> b]

(***************************************************************************)
(* Adaptive filter.                                                        *)
(***************************************************************************)
\* updateWeight whose saturation tests are off by one
updateWeightLate(w0, e) ==
    LET w1 == IF e < 127 THEN w0 + 1 ELSE w0
        w2 == IF e > 127 THEN w1 - 1 ELSE w1
        w3 == IF w2 = 1282 THEN w2 - 1 ELSE w2
        w4 == IF w3 = -1282 THEN w3 + 1 ELSE w3
    IN  w4

updateWeight(w0, e) ==
    LET w1 == IF e < 127 THEN w0 + 1 ELSE w0
        w2 == IF e > 127 THEN w1 - 1 ELSE w1
        w3 == IF w2 = 1281 THEN w2 - 1 ELSE w2
        w4 == IF w3 = -1281 THEN w3 + 1 ELSE w3
    IN  w4

\* weight >> rate on a signed int: arithmetic shift, i.e. floor division
ShiftedWeight(w0) == w0 \div (2 ^ rate)

prediction(s, i) ==
    ((s.previousByte[i] - s.secondPreviousByte[i]) + s.previousByte[i]) % 256

adaptiveDeltaEnc(s, b, i) ==
    LET p == prediction(s, i)
        w == ShiftedWeight(s.weight)
        error == (w + (p - b)) % 256
    IN  [s |-> [s EXCEPT !.weight = updateWeight(s.weight, error),
                         !.secondPreviousByte[i] = s.previousByte[i],
                         !.previousByte[i] = (w + b) % 256],
         out |-> error]

\* adaptiveDeltaDec keeping the decoded byte without the weight term as history
adaptiveDeltaDecRaw(s, error, i) ==
    LET p == prediction(s, i)
        w == ShiftedWeight(s.weight)
        b == (w + (p - error)) % 256
    IN  [s |-> [s EXCEPT !.weight = updateWeight(s.weight, error),
                         !.secondPreviousByte[i] = s.previousByte[i],
                         !.previousByte[i] = b],
         out |-> b]

adaptiveDeltaDec(s, error, i) ==
    LET p == prediction(s, i)
        w == ShiftedWeight(s.weight)
        b == (w + (p - error)) % 256
    IN  [s |-> [s EXCEPT !.weight = updateWeight(s.weight, error),
                         !.secondPreviousByte[i] = s.previousByte[i],
                         !.previousByte[i] = (w + b) % 256],
         out |-> b]

(***************************************************************************)
(* Synthetic modulo (the lane router).                                     *)
(***************************************************************************)
\* modulo wrapping one call late: if (d > max) d = 0
moduloLateWrap(s, max) ==
    LET d1 == s.d + 1
        d2 == IF d1 > max THEN 0 ELSE d1
    IN  [s |-> [s EXCEPT !.d = d2, !.routed = @ + 1], out |-> d2]

modulo(s, max) ==
    LET d1 == s.d + 1
        d2 == IF d1 = max THEN 0 ELSE d1
    IN  [s |-> [s EXCEPT !.d = d2, !.routed = @ + 1], out |-> d2]

resetModulo(s) == [s EXCEPT !.d = 0]

(***************************************************************************)
(* Entropy estimate.  freq[channel] is kept sparse: a function from the    *)
(* byte values counted so far to their counts (an absent value counts 0).  *)
(***************************************************************************)
count(h, current) ==
    IF current \in DOMAIN h
    THEN [h EXCEPT ![current] = @ + 1]
    ELSE [v \in DOMAIN h \cup {current} |-> IF v = current THEN 1 ELSE h[v]]

EmptyFreq == [i \in 0..14 |-> << >>]

\* the counts of the byte values lo..hi, summed by halves of the range
RECURSIVE HistSpan(_, _, _)
HistSpan(h, lo, hi) ==
    IF \A v \in DOMAIN h : v < lo \/ v > hi THEN 0
    ELSE IF lo = hi THEN h[lo]
    ELSE LET mid == (lo + hi) \div 2
         IN  HistSpan(h, lo, mid) + HistSpan(h, mid + 1, hi)

HistTotal(h) == HistSpan(h, 0, 255)

(***************************************************************************)
(* calcEntropy computes, in doubles, H = SUM p * (-log p / log 2) with     *)
(* p = count / fileLength.  With N the total of the histogram and          *)
(* L = fileLength, H = (N * log2 L - log2 P) / L where P is the product of *)
(* count^count over the counted values.  Every candidate counts every byte *)
(* the scan reads, so N and L are the same for all 15 candidates and the   *)
(* order of two exact entropies is the reverse of the order of their       *)
(* products P.  The model keeps P exactly, as a natural number in base     *)
(* BigBase (least significant digit first).                                *)
(*                                                                         *)
(* The doubles round: two different histograms whose exact entropies are   *)
(* equal (the same counts at other byte values) are summed in another      *)
(* order and may differ in the last bits, while equal histograms give the  *)
(* same double.  An entropy is therefore a pair: the product P and a       *)
(* rounding rank lo, which is 0 for the histograms equal to the one the    *)
(* rounding favours and 1 for the others; which histogram that is, is not  *)
(* determined by the model.  For an empty file every entropy is NaN in the *)
(* code and no comparison succeeds; here all pairs are equal.              *)
(***************************************************************************)
BigBase == 10 ^ 6

BigOne == <<1>>

\* the digits lo..hi of a times m, the span taken by halves
RECURSIVE BigMulCarry(_, _, _, _, _)
BigMulCarry(a, m, lo, hi, carry) ==
    IF lo > hi THEN [out |-> << >>, carry |-> carry]
    ELSE IF lo = hi
         THEN LET t == a[lo] * m + carry
              IN  [out |-> <<t % BigBase>>, carry |-> t \div BigBase]
    ELSE LET mid == (lo + hi) \div 2
             l == BigMulCarry(a, m, lo, mid, carry)
             r == BigMulCarry(a, m, mid + 1, hi, l.carry)
         IN  [out |-> l.out \o r.out, carry |-> r.carry]

BigMulSmall(a, m) ==
    LET r == BigMulCarry(a, m, 1, Len(a), 0)
    IN  IF r.carry = 0 THEN r.out ELSE Append(r.out, r.carry)

\* decided by the most significant digit, among the first i, that differs
BigLessFrom(a, b, i) ==
    LET differ == {k \in 1..i : a[k] # b[k]}
    IN  /\ differ # {}
        /\ LET top == CHOOSE k \in differ : \A j \in differ : j <= k
           IN  a[top] < b[top]

BigLess(a, b) ==
    IF Len(a) # Len(b) THEN Len(a) < Len(b) ELSE BigLessFrom(a, b, Len(a))

RECURSIVE BigTimesPower(_, _, _)
BigTimesPower(a, c, times) ==
    IF times = 0 THEN a
    ELSE IF times = 1 THEN BigMulSmall(a, c)
    ELSE LET t == BigTimesPower(a, c, times \div 2)
         IN  Eager(t, BigTimesPower(t, c, times - times \div 2))

\* a times count^count for the byte values lo..hi, the range taken by halves
RECURSIVE CountSpan(_, _, _, _)
CountSpan(h, a, lo, hi) ==
    IF \A v \in DOMAIN h : v < lo \/ v > hi THEN a
    ELSE IF lo = hi
         THEN IF h[lo] > 1 THEN BigTimesPower(a, h[lo], h[lo]) ELSE a
    ELSE LET mid == (lo + hi) \div 2
             t == CountSpan(h, a, lo, mid)
         IN  Eager(t, CountSpan(h, t, mid + 1, hi))

CountPower(h, a) == CountSpan(h, a, 0, 255)

\* the exact entropy of one candidate, represented by its product P
calcEntropy(fr, c) == CountPower(fr[c], BigOne)

Candidates == 0..totalChannels - 1

ExactEnt(fr) == [i \in Candidates |-> calcEntropy(fr, i)]

\* the candidates of least exact entropy
ExactLeast(exact) ==
    {i \in Candidates : \A j \in Candidates : ~BigLess(exact[i], exact[j])}

\* the array chanEnt of doubles, the rounding favouring the histogram of fav
Rounded(fr, exact, fav) ==
    [i \in Candidates |-> [p |-> exact[i],
                           lo |-> IF fr[i] = fr[fav] THEN 0 ELSE 1]]

\* e1 < e2 on doubles
EntropyLess(e1, e2) ==
    \/ BigLess(e2.p, e1.p)
    \/ e1.p = e2.p /\ e1.lo < e2.lo

(***************************************************************************)
(* findSmallestChannel: the loop over i = 1..14 keeping (index, min).      *)
(***************************************************************************)
\* the selection loop replacing the choice on an equal entropy too
RECURSIVE SmallestLast(_, _, _, _)
SmallestLast(ce, i, index, min) ==
    IF i >= totalChannels THEN index
    ELSE IF ~EntropyLess(min, ce[i])
         THEN SmallestLast(ce, i + 1, i, ce[i])
         ELSE SmallestLast(ce, i + 1, index, min)

RECURSIVE SmallestFrom(_, _, _, _)
SmallestFrom(ce, i, index, min) ==
    IF i >= totalChannels THEN index
    ELSE IF EntropyLess(ce[i], min)
         THEN SmallestFrom(ce, i + 1, i, ce[i])
         ELSE SmallestFrom(ce, i + 1, index, min)

findSmallestChannel(ce) == SmallestFrom(ce, 1, 0, ce[0])

(***************************************************************************)
(* The scan's loops: for each candidate index, for each byte of the block. *)
(* sb is the index at which the scan switches to the adaptive filter:      *)
(* breakpoint in prepack.c, 7 in prepack_lite.c.                           *)
(***************************************************************************)
ScanBreak(v) == IF v = "lite" THEN liteScanBreak ELSE breakpoint

ScanByte(s, h, b, index, sb) ==
    LET n == indexToChannel[index]
    IN  IF n = 0
        THEN [s |-> s, h |-> count(h, b)]
        ELSE LET m == modulo(s, n)
                 f == IF index < sb
                      THEN deltaEnc(m.s, b, m.out)
                      ELSE adaptiveDeltaEnc(m.s, b, m.out)
             IN  [s |-> f.s, h |-> count(h, f.out)]

\* the bytes buf[lo..hi] in order, the span taken by halves
RECURSIVE ScanSpan(_, _, _, _, _, _, _)
ScanSpan(s, h, buf, lo, hi, index, sb) ==
    IF lo > hi THEN [s |-> s, h |-> h]
    ELSE IF lo = hi THEN ScanByte(s, h, buf[lo], index, sb)
    ELSE LET mid == (lo + hi) \div 2
             r == ScanSpan(s, h, buf, lo, mid, index, sb)
         IN  Eager(r, ScanSpan(r.s, r.h, buf, mid + 1, hi, index, sb))

ScanBytes(s, h, buf, i, index, sb) == ScanSpan(s, h, buf, i, Len(buf), index, sb)

\* no byte routed yet for any candidate
NoLanes == [i \in 0..14 |-> [first |-> -1, last |-> -1]]

\* ln records, for the candidates that routed bytes of buf, the value modulo()
\* returned for the first and for the last byte
\* the body of the loop over the candidates, for one index
ScanIndex(t, buf, index, sb) ==
    LET n == indexToChannel[index]
        r == ScanBytes(t.s, t.freq[index], buf, 1, index, sb)
        l == IF n = 0 \/ Len(buf) = 0 THEN t.lanes[index]
             ELSE [first |-> modulo(t.s, n).out, last |-> r.s.d]
    IN  [s |-> resetModulo(r.s), freq |-> [t.freq EXCEPT ![index] = r.h],
         lanes |-> [t.lanes EXCEPT ![index] = l]]

\* the candidates lo..hi in order, the span taken by halves
RECURSIVE ScanIndexSpan(_, _, _, _, _)
ScanIndexSpan(t, buf, lo, hi, sb) ==
    IF lo > hi THEN t
    ELSE IF lo = hi THEN ScanIndex(t, buf, lo, sb)
    ELSE LET mid == (lo + hi) \div 2
             r == ScanIndexSpan(t, buf, lo, mid, sb)
         IN  Eager(r, ScanIndexSpan(r, buf, mid + 1, hi, sb))

ScanIndexes(s, fr, ln, buf, index, sb) ==
    ScanIndexSpan([s |-> s, freq |-> fr, lanes |-> ln], buf, index,
                  totalChannels - 1, sb)

(***************************************************************************)
(* The commit loops over one block: "enc" = the encode pass, "dec" = the   *)
(* decode pass.  c is the candidate index, n = indexToChannel[c] (or the   *)
(* value read beyond the table).  The lane arrays have 8 entries; a lane   *)
(* index beyond them is reported in oob and the loop is abandoned.         *)
(***************************************************************************)
\* CodeByte without the test ch != 0: the identity candidate filtered as one lane
CodeByteRouted(s, b, dir, c, n) ==
    LET m == modulo(s, IF n = 0 THEN 1 ELSE n)
    IN  IF c < breakpoint
        THEN IF dir = "enc" THEN deltaEnc(m.s, b, m.out)
                            ELSE deltaDec(m.s, b, m.out)
        ELSE IF dir = "enc" THEN adaptiveDeltaEnc(m.s, b, m.out)
                            ELSE adaptiveDeltaDec(m.s, b, m.out)

CodeByte(s, b, dir, c, n) ==
    IF n = 0 THEN [s |-> s, out |-> b]
    ELSE LET m == modulo(s, n)
         IN  IF c < breakpoint
             THEN IF dir = "enc" THEN deltaEnc(m.s, b, m.out)
                                 ELSE deltaDec(m.s, b, m.out)
             ELSE IF dir = "enc" THEN adaptiveDeltaEnc(m.s, b, m.out)
                                 ELSE adaptiveDeltaDec(m.s, b, m.out)

\* the bytes buf[lo..hi] in order, the span taken by halves; t is the loop's
\* state so far and is returned as it is once a lane index left the arrays
RECURSIVE CodeSpan(_, _, _, _, _, _, _)
CodeSpan(t, buf, lo, hi, dir, c, n) ==
    IF lo > hi \/ t.oob THEN t
    ELSE IF lo = hi
         THEN IF n > 8 /\ modulo(t.s, n).out \notin Lanes
              THEN [t EXCEPT !.oob = TRUE]
              ELSE LET r == CodeByte(t.s, buf[lo], dir, c, n)
                   IN  [s |-> r.s, out |-> Append(t.out, r.out), oob |-> FALSE]
    ELSE LET mid == (lo + hi) \div 2
             r == CodeSpan(t, buf, lo, mid, dir, c, n)
         IN  Eager(r, CodeSpan(r, buf, mid + 1, hi, dir, c, n))

CodeBytes(s, buf, i, acc, dir, c, n) ==
    CodeSpan([s |-> s, out |-> acc, oob |-> FALSE], buf, i, Len(buf), dir, c, n)

\* CodeBlock restarting the lane counter at every block, as the scan does
CodeBlockReset(s, buf, dir, c, n) ==
    CodeBytes(resetModulo(s), buf, 1, << >>, dir, c, n)

CodeBlock(s, buf, dir, c, n) == CodeBytes(s, buf, 1, << >>, dir, c, n)

(***************************************************************************)
(* Input files.                                                            *)
(***************************************************************************)
ByteVals == {0, 1, 128, 255}

RECURSIVE SeqsUpTo(_)
SeqsUpTo(n) ==
    IF n = 0 THEN {<< >>}
    ELSE LET shorter == SeqsUpTo(n - 1)
         IN  shorter \cup {Append(q, b) : q \in {x \in shorter : Len(x) = n - 1},
                                          b \in ByteVals}

\* seed repeated cyclically up to length n
Cyc(seed, n) == [k \in 1..n |-> seed[((k - 1) % Len(seed)) + 1]]

\* every n-th byte, at the positions congruent to r, is 7; the rest vary
LaneConst(n, r, len) ==
    [k \in 1..len |-> IF (k - 1) % n = r THEN 7 ELSE (k * 37 + 11) % 256]

Seeds == {<<0>>, <<200>>, <<0, 255>>, <<1, 128, 255>>, <<3, 1, 4, 1, 5, 9, 2, 6>>}

LongLens == {blocksize - 1, blocksize, blocksize + 1, 2 * blocksize,
             2 * blocksize + 5, blocksize * (boost + 1),
             blocksize * (boost + 1) + 1, blocksize * (boost + 2) + 3}

Small == SeqsUpTo(MaxLen)
Triples == {Cyc(<<10, 20, 30>>, 3 * k) : k \in 0..(blocksize \div 3)}
LaneInputs == UNION {{LaneConst(n, r, len) : r \in 0..n - 1,
                                             len \in {2 * n + 1, blocksize + n + 1}}
                     : n \in 1..8}
LongInputs == {Cyc(seed, len) : seed \in Seeds, len \in LongLens}

\* what the encoder is given
Plain == Small \cup Triples \cup LaneInputs \cup LongInputs

\* what the decoder is given: a header byte (also out of range) and a payload
Headed == {<< >>} \cup
          {<<h>> \o q : h \in 0..totalChannels \cup {255},
                       q \in SeqsUpTo(1) \cup {Cyc(<<1, 128, 255>>, 9),
                                               Cyc(<<0, 255>>, blocksize + 1)}}

(***************************************************************************)
(* main.                                                                   *)
(***************************************************************************)
Args == <<variant, argc, mode, inOpenable, outOpenable, input, orig, decRegs,
          laneSeq>>
Streams == <<inS, outS, pos, eofIn, inErr, outErr, outFile>>
Filter == <<previous, previousByte, secondPreviousByte, weight, d, routed>>
Scan == <<freq, fileLength, chanEnt, scanLanes>>
Chosen == <<channel, ch, tableOOB>>

SetRegs(s) ==
    /\ previous' = s.previous
    /\ previousByte' = s.previousByte
    /\ secondPreviousByte' = s.secondPreviousByte
    /\ weight' = s.weight
    /\ d' = s.d
    /\ routed' = s.routed

\* return n without reaching the fclose calls
Return(n) == pc' = "exit" /\ status' = n

\* if (argc != 4) return 1
CheckArgs ==
    /\ pc = "start"
    /\ IF argc # 4 THEN Return(1) ELSE pc' = "open_in" /\ status' = status
    /\ UNCHANGED <<Args, Streams, Filter, Scan, Chosen, err>>

\* in = fopen(argv[2], "rb")
OpenIn ==
    /\ pc = "open_in"
    /\ IF inOpenable
       THEN inS' = "open" /\ pc' = "open_out" /\ status' = status
       ELSE inS' = inS /\ Return(2)
    /\ UNCHANGED <<Args, outS, pos, eofIn, inErr, outErr, outFile, Filter, Scan,
                   Chosen, err>>

\* out = fopen(argv[3], "wb"): creates or truncates the output file
OpenOut ==
    /\ pc = "open_out"
    /\ IF outOpenable
       THEN outS' = "open" /\ pc' = "dispatch" /\ status' = status
       ELSE outS' = outS /\ Return(3)
    /\ UNCHANGED <<Args, inS, pos, eofIn, inErr, outErr, outFile, Filter, Scan,
                   Chosen, err>>

\* the tests of argv[1][0]; for 'e' the fseek/ftell/fseek that sets fileLength
Dispatch ==
    /\ pc = "dispatch"
    /\ IF mode = "e"
       THEN /\ fileLength' = Len(input)
            /\ pos' = 0 /\ eofIn' = FALSE
            /\ pc' = "scan" /\ status' = status
       ELSE /\ UNCHANGED <<fileLength, pos, eofIn>>
            /\ IF mode = "d" THEN pc' = "decode_hdr" /\ status' = status
               ELSE IF variant = "lite" THEN Return(4)
               ELSE pc' = "finish" /\ status' = status
    /\ UNCHANGED <<Args, inS, outS, inErr, outErr, outFile, Filter, freq, chanEnt,
                   scanLanes, Chosen, err>>

\* fread(buffer, 1, blocksize, in) without error: the block and the new indicators
ReadLen == Min(blocksize, Len(input) - pos)
ReadBuf == SubSeq(input, pos + 1, pos + ReadLen)
ReadEof == ReadLen < blocksize

\* the stride test made when the read position is p, with <= for <
RoomToStrideInclusive(p) == p + blocksize * boost <= fileLength

\* if ((ftell(in) + (blocksize*boost)) < eof), the read position being p
RoomToStride(p) == p + blocksize * boost < fileLength

\* one iteration of the scan loop
ScanBlock ==
    /\ pc = "scan" /\ ~eofIn
    /\ LET r == ScanIndexes(Regs, freq, scanLanes, ReadBuf, 0, ScanBreak(variant))
           p == pos + ReadLen
       IN  /\ SetRegs(r.s)
           /\ freq' = r.freq
           /\ scanLanes' = r.lanes
           /\ IF RoomToStride(p)
              THEN pos' = p + blocksize * boost /\ eofIn' = FALSE
              ELSE pos' = p /\ eofIn' = ReadEof
    /\ UNCHANGED <<Args, pc, status, inS, outS, inErr, outErr, outFile, fileLength,
                   chanEnt, Chosen, err>>

\* putc writing nothing
putcLost(f, c) == f

\* putc(c, out)
putc(f, c) == Append(f, c)

\* reset variables, write the header, rewind(in), ch = indexToChannel[channel]
Commit(c) ==
    /\ channel' = c
    /\ ch' = indexToChannel[c]
    /\ SetRegs(ResetVariables(Regs))
    /\ outFile' = putc(outFile, c)
    /\ pos' = 0 /\ eofIn' = FALSE /\ inErr' = FALSE
    /\ pc' = "encode"

\* after the scan: findSmallestChannel, then the commit pass is set up
ScanDone ==
    /\ pc = "scan" /\ eofIn
    /\ LET exact == ExactEnt(freq)
       IN  \E fav \in ExactLeast(exact) :
               /\ chanEnt' = Rounded(freq, exact, fav)
               /\ Commit(findSmallestChannel(chanEnt'))
    /\ UNCHANGED <<Args, status, inS, outS, outErr, freq, fileLength, scanLanes,
                   tableOOB, err>>

\* one iteration of the encode loop, fread and fwrite succeeding
EncodeBlock ==
    /\ pc = "encode" /\ ~eofIn
    /\ LET r == CodeBlock(Regs, ReadBuf, "enc", channel, ch)
       IN  /\ SetRegs(r.s)
           /\ outFile' = outFile \o r.out
    /\ pos' = pos + ReadLen /\ eofIn' = ReadEof
    /\ pc' = IF ReadEof THEN "finish" ELSE "encode"
    /\ UNCHANGED <<Args, status, inS, outS, inErr, outErr, Scan, Chosen, err>>

\* getc(in), the printf that reads indexToChannel[channel], reset, ch
DecodeHeader ==
    /\ pc = "decode_hdr"
    /\ IF pos < Len(input)
       THEN channel' = input[pos + 1] /\ pos' = pos + 1 /\ eofIn' = FALSE
       ELSE channel' = -1 /\ pos' = pos /\ eofIn' = TRUE
    /\ IF channel' \in 0..totalChannels - 1
       THEN ch' = indexToChannel[channel'] /\ tableOOB' = tableOOB
       ELSE ch' \in 0..9 /\ tableOOB' = TRUE
    /\ SetRegs(ResetVariables(Regs))
    /\ pc' = IF eofIn' THEN "finish" ELSE "decode"
    /\ UNCHANGED <<Args, status, inS, outS, inErr, outErr, outFile, Scan, err>>

\* one iteration of the decode loop, fread and fwrite succeeding
DecodeBlock ==
    /\ pc = "decode" /\ ~eofIn
    /\ LET r == CodeBlock(Regs, ReadBuf, "dec", channel, ch)
       IN  /\ SetRegs(r.s)
           /\ outFile' = outFile \o r.out
           /\ pc' = IF r.oob THEN "ub" ELSE IF ReadEof THEN "finish" ELSE "decode"
    /\ pos' = pos + ReadLen /\ eofIn' = ReadEof
    /\ UNCHANGED <<Args, status, inS, outS, inErr, outErr, Scan, Chosen, err>>

\* fclose(in); fclose(out); return 0
Finish ==
    /\ pc = "finish"
    /\ inS' = "closed" /\ outS' = "closed"
    /\ Return(0)
    /\ UNCHANGED <<Args, pos, eofIn, inErr, outErr, outFile, Filter, Scan, Chosen, err>>

(***************************************************************************)
(* I/O failures.  prepack.c returns 4 on a failed fread and 5 on a short   *)
(* fwrite; prepack_lite.c tests neither and goes on.                       *)
(***************************************************************************)
\* fread fails: no byte is delivered, the error indicator is set, EOF is not
ReadError ==
    /\ pc \in {"scan", "encode", "decode"} /\ ~eofIn
    /\ inErr' = TRUE
    /\ IF variant = "full"
       THEN Return(4) /\ pos' = pos
       ELSE /\ pc' = pc /\ status' = status
            /\ IF pc = "scan" /\ RoomToStride(pos)
               THEN pos' = pos + blocksize * boost
               ELSE pos' = pos
    /\ UNCHANGED <<Args, inS, outS, eofIn, outErr, outFile, Filter, Scan, Chosen, err>>

\* fwrite writes fewer bytes than the block holds
WriteError ==
    /\ pc \in {"encode", "decode"} /\ ~eofIn /\ ReadLen > 0
    /\ LET r == CodeBlock(Regs, ReadBuf, IF pc = "encode" THEN "enc" ELSE "dec",
                          channel, ch)
       IN  /\ ~r.oob
           /\ SetRegs(r.s)
           /\ \E w \in {0, ReadLen - 1} : outFile' = outFile \o SubSeq(r.out, 1, w)
    /\ outErr' = TRUE
    /\ pos' = pos + ReadLen /\ eofIn' = ReadEof
    /\ IF variant = "full"
       THEN Return(5)
       ELSE status' = status /\ pc' = IF ReadEof THEN "finish" ELSE pc
    /\ UNCHANGED <<Args, inS, outS, inErr, Scan, Chosen, err>>

Init ==
    /\ variant \in {"full", "lite"}
    /\ argc \in {3, 4}
    /\ mode \in {"e", "d", "x"}
    /\ inOpenable \in BOOLEAN
    /\ outOpenable \in BOOLEAN
    /\ input \in IF mode = "d" THEN Headed ELSE Plain
    /\ orig = << >> /\ decRegs = FreshRegs
    /\ laneSeq = << >>
    /\ pc = "start" /\ status = -1
    /\ inS = "unopened" /\ outS = "unopened"
    /\ pos = 0 /\ eofIn = FALSE /\ inErr = FALSE /\ outErr = FALSE
    /\ outFile = << >>
    /\ previous = ZeroLanes /\ previousByte = ZeroLanes
    /\ secondPreviousByte = ZeroLanes /\ weight = 0 /\ d = 0 /\ routed = 0
    /\ freq = EmptyFreq /\ fileLength = 0 /\ chanEnt = << >> /\ scanLanes = NoLanes
    /\ channel = 0 /\ ch = 0 /\ tableOOB = FALSE
    /\ err = 0

Next ==
    \/ CheckArgs
    \/ OpenIn
    \/ OpenOut
    \/ Dispatch
    \/ ScanBlock
    \/ ScanDone
    \/ EncodeBlock
    \/ DecodeHeader
    \/ DecodeBlock
    \/ Finish
    \/ ReadError
    \/ WriteError

Spec == Init /\ [][Next]_vars

(***************************************************************************)
(* main is sequential: the statement it is at is executed.  Whether fread  *)
(* or fwrite fails is up to the environment, so the failures get no        *)
(* fairness; and a stream whose fread has failed may fail at every later   *)
(* call, so a block is only guaranteed to be read while the error          *)
(* indicator of in is clear.  The weak fairness of the loop bodies is      *)
(* written out, WF_v(A) being []<>~ENABLED <<A>>_v \/ []<><<A>>_v, with the *)
(* enabling condition as the state predicate LoopsReady: each of these     *)
(* actions is enabled exactly when its guard holds, and changes pos, eofIn *)
(* or pc.                                                                  *)
(***************************************************************************)
Executes ==
    \/ CheckArgs \/ OpenIn \/ OpenOut \/ Dispatch
    \/ DecodeHeader \/ Finish

Loops ==
    \/ ScanDone
    \/ ~inErr /\ (ScanBlock \/ EncodeBlock \/ DecodeBlock)

LoopsReady ==
    \/ pc = "scan" /\ eofIn
    \/ pc \in {"scan", "encode", "decode"} /\ ~eofIn /\ ~inErr

LoopsFair == []<>(~LoopsReady) \/ []<><<Loops>>_vars

\* the inputs of the termination check: empty, shorter than a block, an
\* exact multiple of the block size, and long enough for the scan to stride
LivePlain == {<< >>, <<1, 128, 255>>} \cup
             {Cyc(<<3, 1, 4, 1, 5, 9, 2, 6>>, len) :
                  len \in {blocksize, 2 * blocksize,
                           blocksize * (boost + 1) + 1}}

LiveHeaded == {<< >>} \cup
              {<<h>> \o q : h \in {0, 5, 13, 15, 255},
                            q \in {<< >>, Cyc(<<0, 255>>, blocksize)}}

LiveInit ==
    /\ variant \in {"full", "lite"}
    /\ argc \in {3, 4}
    /\ mode \in {"e", "d", "x"}
    /\ inOpenable \in BOOLEAN
    /\ outOpenable \in BOOLEAN
    /\ input \in IF mode = "d" THEN LiveHeaded ELSE LivePlain
    /\ orig = << >> /\ decRegs = FreshRegs
    /\ laneSeq = << >>
    /\ pc = "start" /\ status = -1
    /\ inS = "unopened" /\ outS = "unopened"
    /\ pos = 0 /\ eofIn = FALSE /\ inErr = FALSE /\ outErr = FALSE
    /\ outFile = << >>
    /\ previous = ZeroLanes /\ previousByte = ZeroLanes
    /\ secondPreviousByte = ZeroLanes /\ weight = 0 /\ d = 0 /\ routed = 0
    /\ freq = EmptyFreq /\ fileLength = 0 /\ chanEnt = << >>
    /\ scanLanes = NoLanes
    /\ channel = 0 /\ ch = 0 /\ tableOOB = FALSE
    /\ err = 0

SpecLive == LiveInit /\ [][Next]_vars /\ WF_vars(Executes) /\ LoopsFair

(***************************************************************************)
(* The codec on its own: the commit encode pass run with any candidate     *)
(* index from reset state, and the decode pass run on what it wrote.       *)
(***************************************************************************)
CodecInit ==
    /\ variant \in {"full", "lite"}
    /\ argc = 4 /\ mode = "e"
    /\ inOpenable = TRUE /\ outOpenable = TRUE
    /\ input \in Plain
    /\ orig = input /\ decRegs = FreshRegs
    /\ laneSeq = << >>
    /\ pc = "commit" /\ status = -1
    /\ inS = "open" /\ outS = "open"
    /\ pos = 0 /\ eofIn = FALSE /\ inErr = FALSE /\ outErr = FALSE
    /\ outFile = << >>
    /\ previous = ZeroLanes /\ previousByte = ZeroLanes
    /\ secondPreviousByte = ZeroLanes /\ weight = 0 /\ d = 0 /\ routed = 0
    /\ freq = EmptyFreq /\ fileLength = Len(input) /\ chanEnt = << >> /\ scanLanes = NoLanes
    /\ channel \in Candidates /\ ch = 0 /\ tableOOB = FALSE
    /\ err = 0

\* the commit pass is set up for the index given
CodecCommit ==
    /\ pc = "commit"
    /\ Commit(channel)
    /\ UNCHANGED <<Args, status, inS, outS, outErr, Scan, tableOOB, err>>

\* the file written becomes the input of a decoding process
CodecFeed ==
    /\ pc = "exit" /\ mode = "e" /\ status = 0
    /\ mode' = "d"
    /\ input' = outFile
    /\ outFile' = << >>
    /\ inS' = "open" /\ outS' = "open"
    /\ pos' = 0 /\ eofIn' = FALSE
    /\ SetRegs(FreshRegs)
    /\ pc' = "decode_hdr" /\ status' = -1
    /\ UNCHANGED <<variant, argc, inOpenable, outOpenable, orig, decRegs, laneSeq,
                   inErr, outErr, Scan, Chosen, err>>

NextCodec ==
    \/ CodecCommit
    \/ EncodeBlock
    \/ Finish
    \/ CodecFeed
    \/ DecodeHeader
    \/ DecodeBlock

SpecCodec == CodecInit /\ [][NextCodec]_vars

(***************************************************************************)
(* updateWeight on its own, driven by any sequence of residuals.           *)
(***************************************************************************)
ErrVals == {0, 1, 126, 127, 128, 255}

WeightInit ==
    /\ variant = "full"
    /\ argc = 4 /\ mode = "e"
    /\ inOpenable = TRUE /\ outOpenable = TRUE
    /\ input = << >> /\ orig = << >> /\ decRegs = FreshRegs
    /\ laneSeq = << >>
    /\ pc = "weight" /\ status = -1
    /\ inS = "unopened" /\ outS = "unopened"
    /\ pos = 0 /\ eofIn = FALSE /\ inErr = FALSE /\ outErr = FALSE
    /\ outFile = << >>
    /\ previous = ZeroLanes /\ previousByte = ZeroLanes
    /\ secondPreviousByte = ZeroLanes /\ weight = 0 /\ d = 0 /\ routed = 0
    /\ freq = EmptyFreq /\ fileLength = 0 /\ chanEnt = << >> /\ scanLanes = NoLanes
    /\ channel = 0 /\ ch = 0 /\ tableOOB = FALSE
    /\ err = 127

\* the weight update of one filter call whose residual is e
WeightStep ==
    /\ pc = "weight"
    /\ \E e \in ErrVals : err' = e /\ weight' = updateWeight(weight, e)
    /\ UNCHANGED <<Args, pc, status, Streams, previous, previousByte,
                   secondPreviousByte, d, routed, Scan, Chosen>>

NextWeight == WeightStep

SpecWeight == WeightInit /\ [][NextWeight]_vars

(***************************************************************************)
(* Encoder and decoder in lock step: from the state both passes start in,  *)
(* one byte at a time, the commit encode loop body on the next input byte  *)
(* and the decode loop body of another process on the byte just written.   *)
(***************************************************************************)
PairInit ==
    /\ variant \in {"full", "lite"}
    /\ argc = 4 /\ mode = "e"
    /\ inOpenable = TRUE /\ outOpenable = TRUE
    /\ input \in Plain
    /\ orig = input /\ decRegs = FreshRegs
    /\ laneSeq = << >>
    /\ pc = "pair" /\ status = -1
    /\ inS = "open" /\ outS = "open"
    /\ pos = 0 /\ eofIn = FALSE /\ inErr = FALSE /\ outErr = FALSE
    /\ outFile = << >>
    /\ previous = ZeroLanes /\ previousByte = ZeroLanes
    /\ secondPreviousByte = ZeroLanes /\ weight = 0 /\ d = 0 /\ routed = 0
    /\ freq = EmptyFreq /\ fileLength = Len(input) /\ chanEnt = << >>
    /\ scanLanes = NoLanes
    /\ channel \in 1..totalChannels - 1 /\ ch = indexToChannel[channel]
    /\ tableOOB = FALSE
    /\ err = 0

\* the k-th byte goes through the encoder, the residual through the decoder
PairStep ==
    /\ pc = "pair" /\ pos < Len(input)
    /\ LET en == CodeByte(Regs, input[pos + 1], "enc", channel, ch)
           de == CodeByte(decRegs, en.out, "dec", channel, ch)
       IN  /\ SetRegs(en.s)
           /\ decRegs' = de.s
           /\ outFile' = Append(outFile, en.out)
    /\ pos' = pos + 1
    /\ UNCHANGED <<variant, argc, mode, inOpenable, outOpenable, input, orig,
                   laneSeq, pc, status, inS, outS, eofIn, inErr, outErr, Scan,
                   Chosen, err>>

NextPair == PairStep

SpecPair == PairInit /\ [][NextPair]_vars

(***************************************************************************)
(* modulo() on its own: from d = 0, the calls one block makes with a       *)
(* channel count of the table.                                             *)
(***************************************************************************)
RouterInit ==
    /\ variant = "full"
    /\ argc = 4 /\ mode = "e"
    /\ inOpenable = TRUE /\ outOpenable = TRUE
    /\ input = << >> /\ orig = << >> /\ decRegs = FreshRegs
    /\ laneSeq = << >>
    /\ pc = "router" /\ status = -1
    /\ inS = "unopened" /\ outS = "unopened"
    /\ pos = 0 /\ eofIn = FALSE /\ inErr = FALSE /\ outErr = FALSE
    /\ outFile = << >>
    /\ previous = ZeroLanes /\ previousByte = ZeroLanes
    /\ secondPreviousByte = ZeroLanes /\ weight = 0 /\ d = 0 /\ routed = 0
    /\ freq = EmptyFreq /\ fileLength = 0 /\ chanEnt = << >>
    /\ scanLanes = NoLanes
    /\ channel \in 1..totalChannels - 1 /\ ch = indexToChannel[channel]
    /\ tableOOB = FALSE
    /\ err = 0

\* int mod = modulo(ch)
RouterCall ==
    /\ pc = "router" /\ routed < blocksize
    /\ LET m == modulo(Regs, ch)
       IN  /\ SetRegs(m.s)
           /\ laneSeq' = Append(laneSeq, m.out)
    /\ UNCHANGED <<variant, argc, mode, inOpenable, outOpenable, input, orig,
                   decRegs, pc, status, Streams, Scan, Chosen, err>>

NextRouter == RouterCall

SpecRouter == RouterInit /\ [][NextRouter]_vars

(***************************************************************************)
(* Properties.                                                             *)
(***************************************************************************)
PastScan == pc \in {"encode", "finish", "exit"} /\ chanEnt # << >>
NoIOError == ~inErr /\ ~outErr

\* the positions 1..len of q congruent to r modulo n all hold the same byte
LaneConstant(q, n, r) ==
    \A k \in 1..Len(q) : (k - 1) % n = r => q[k] = q[r + 1]

(* C1: under SpecCodec, for every candidate index 0..14 and every input,   *)
(* the decode pass run from reset state on the header byte followed by the *)
(* bytes the commit encode pass wrote reproduces the input: every block    *)
(* decoded so far is a prefix of the original, and at the end of the       *)
(* decode pass the output is the original byte sequence.                   *)
C1_RoundTrip ==
    mode = "d" /\ pc \in {"decode", "finish", "exit"} =>
        /\ outFile = SubSeq(orig, 1, pos - 1)
        /\ pc \in {"finish", "exit"} => outFile = orig

C1_Witness ==
    /\ mode = "d" /\ pc = "exit"
    /\ channel >= breakpoint
    /\ Len(orig) > 2 * blocksize
    /\ weight # 0
    /\ outFile = orig
    /\ input # <<channel>> \o orig

(* C2: a successful encode of an input of length L has written L + 1       *)
(* bytes; whenever the encoder has written anything, the first byte of the *)
(* output is the selected candidate index, which lies in 0..14; the bytes  *)
(* after it are one per input byte read, and the pass has read the whole   *)
(* input when it ends.                                                     *)
C2_HeaderAndLength ==
    mode = "e" =>
        /\ outFile # << >> => outFile[1] = channel /\ channel \in 0..14
        /\ PastScan /\ ~outErr => Len(outFile) = pos + 1
        /\ pc = "exit" /\ status = 0 /\ NoIOError =>
               pos = Len(input) /\ Len(outFile) = Len(input) + 1

C2_Witness ==
    /\ mode = "e" /\ pc = "exit" /\ status = 0 /\ NoIOError
    /\ Len(input) > blocksize * (boost + 1)
    /\ Len(outFile) = Len(input) + 1
    /\ outFile[1] = channel /\ channel > 0

(* C3: with candidate 0 the commit encode pass has written the header and  *)
(* the input bytes read so far unchanged, the decode pass has written the  *)
(* payload bytes read so far unchanged, and no step of either pass calls   *)
(* the lane router or changes the lane histories, the weight or the lane   *)
(* counter.                                                                *)
PassThroughStep ==
    pc \in {"encode", "decode"} /\ channel = 0 =>
        UNCHANGED <<previous, previousByte, secondPreviousByte, weight, d, routed>>

C3_PassThrough ==
    /\ [](mode = "e" /\ PastScan /\ channel = 0 /\ ~outErr =>
              outFile = <<0>> \o SubSeq(input, 1, pos))
    /\ [](mode = "d" /\ pc \in {"decode", "finish", "exit"} /\ channel = 0
              /\ ~outErr => outFile = SubSeq(input, 2, pos))
    /\ [][PassThroughStep]_vars

C3_Witness ==
    /\ mode = "e" /\ pc = "exit" /\ status = 0 /\ NoIOError
    /\ chanEnt # << >> /\ channel = 0
    /\ Len(input) > blocksize
    /\ routed > 0
    /\ outFile = <<0>> \o input

(* C4: under SpecWeight, starting from 0 the weight stays within           *)
(* -1280..1280 after every update; a residual below 127 raises it by one,  *)
(* or holds it at 1280; a residual above 127 lowers it by one, or holds it *)
(* at -1280; the residual 127 leaves it unchanged.                         *)
SaturatingStep ==
    /\ err' < 127 => weight' = IF weight = 1280 THEN 1280 ELSE weight + 1
    /\ err' > 127 => weight' = IF weight = -1280 THEN -1280 ELSE weight - 1
    /\ err' = 127 => weight' = weight

C4_WeightSaturation ==
    /\ [](weight \in -1280..1280)
    /\ [][SaturatingStep]_vars

C4_Witness == pc = "weight" /\ weight = 1280 /\ err < 127

(* C5: under SpecCodec, in the commit encode pass of a delta candidate     *)
(* with channel count n, for every r whose positions (congruent to r       *)
(* modulo n) all hold the same input byte, every residual written for      *)
(* those positions after the first is 0, whatever the other lanes hold and *)
(* wherever the blocks end.                                                *)
C5_LaneIndependence ==
    mode = "e" /\ pc \in {"encode", "finish", "exit"} /\ channel \in 1..9 =>
        LET n == indexToChannel[channel]
        IN  \A r \in 0..n - 1 :
                LaneConstant(input, n, r) =>
                    \A k \in 1..Len(outFile) - 1 :
                        (k - 1) % n = r /\ k > r + 1 => outFile[k + 1] = 0

C5_Witness ==
    /\ mode = "e" /\ pc = "exit" /\ channel = 5
    /\ Len(input) > blocksize + 5
    /\ LaneConstant(input, 5, 2) /\ input[3] # 0
    /\ ~LaneConstant(input, 5, 0) /\ ~LaneConstant(input, 5, 1)
    /\ outFile[blocksize + 5] = 0
    /\ \E k \in 1..Len(input) : outFile[k + 1] # 0 /\ k > 5

IsTriples(q, k) == q = Cyc(<<10, 20, 30>>, 3 * k)

(* C6: for an input that is the triple 10,20,30 repeated two or more       *)
(* times, the scan selects candidate index 3 and every byte the commit     *)
(* pass writes after the header and the first triple is 0.                 *)
C6_TripleSelectsThree ==
    mode = "e" /\ PastScan /\ (\E k \in 2..Len(input) : IsTriples(input, k)) =>
        /\ channel = 3
        /\ \A i \in 5..Len(outFile) : outFile[i] = 0

(* C7: the index findSmallestChannel returned has an entropy no other      *)
(* candidate's entropy is smaller than, and every lower index has a        *)
(* strictly larger entropy: it is the lowest index of least entropy.       *)
LessDouble(e1, e2) == BigLess(e2.p, e1.p) \/ (e1.p = e2.p /\ e1.lo < e2.lo)

C7_LowestMinimum ==
    chanEnt # << >> =>
        /\ channel \in Candidates
        /\ \A j \in Candidates : ~LessDouble(chanEnt[j], chanEnt[channel])
        /\ \A j \in 0..channel - 1 : LessDouble(chanEnt[channel], chanEnt[j])

C7_Witness ==
    /\ chanEnt # << >> /\ channel > 1
    /\ \E j \in Candidates : j > channel /\ chanEnt[j] = chanEnt[channel]
    /\ \E j \in Candidates : j < channel /\ chanEnt[j].p = chanEnt[channel].p

BadHeader == input = << >> \/ input[1] \notin 0..14

(* C8: decoding a stream whose header byte is no candidate index (or that  *)
(* is empty) ends in an error status; indexToChannel is never read outside *)
(* its 15 entries and nothing is decoded with a channel count from outside *)
(* the table.                                                              *)
C8_BadHeaderRejected ==
    /\ ~tableOOB
    /\ mode = "d" /\ BadHeader /\ pc = "exit" => status # 0 /\ outFile = << >>

(* C9: when main has returned, no stream it opened is still open.          *)
C9_StreamsReleased ==
    pc = "exit" => inS # "open" /\ outS # "open"

(* C10: when main has returned on a usage error (argc is not 4, or the     *)
(* mode is neither e nor d), neither stream was ever opened.               *)
C10_UsageErrorNoIO ==
    pc = "exit" /\ (argc # 4 \/ mode \notin {"e", "d"}) =>
        inS = "unopened" /\ outS = "unopened"

\* the failure conditions of an invocation, as they arise along main
BadArgCount == argc # 4
InputUnopenable == argc = 4 /\ ~inOpenable
OutputUnopenable == argc = 4 /\ inOpenable /\ ~outOpenable
UnknownMode == argc = 4 /\ inOpenable /\ outOpenable /\ mode \notin {"e", "d"}
ReadFailed == inErr
WriteFailed == outErr
AnyFailure ==
    \/ BadArgCount \/ InputUnopenable \/ OutputUnopenable
    \/ UnknownMode \/ ReadFailed \/ WriteFailed

(* C11: when main has returned after one of the six failure conditions the *)
(* status is not 0, the status of success; and each non-zero status a      *)
(* program returns stands for one condition only, so that the statuses of  *)
(* two different conditions differ.                                        *)
C11_DistinctStatus ==
    pc = "exit" =>
        /\ AnyFailure => status # 0
        /\ status = 1 => BadArgCount
        /\ status = 2 => InputUnopenable
        /\ status = 3 => OutputUnopenable
        /\ status = 4 => IF variant = "full" THEN ReadFailed ELSE UnknownMode
        /\ status = 5 => WriteFailed
        /\ status \in 0..5

\* a step of the scan that routed bytes continues, for candidate i, the
\* sequence 1,2,...,n-1,0 from the lane of the last byte scanned before it
ContinuesLanes(i) ==
    LET n == indexToChannel[i]
    IN  pc = "scan" /\ n >= 1 /\ scanLanes[i].last # -1 /\ routed' # routed =>
            scanLanes'[i].first = (scanLanes[i].last + 1) % n

(* C12: in every step of the scan that processes a further block, each     *)
(* candidate with n >= 1 channels gives the first byte of the block the    *)
(* lane that follows, in the sequence 1,2,...,n-1,0, the lane it gave the  *)
(* last byte of the block before: the lane counter is not reset between    *)
(* the blocks of one candidate.                                            *)
C12_ScanLaneContinuity ==
    [][\A i \in 1..14 : ContinuesLanes(i)]_vars

\* from the filter state s, the scan scores byte b for candidate i by the
\* step the commit encode pass takes for index i, and the decode pass undoes it
ScoredAsCommitted(s, i, b) ==
    LET sc == ScanByte(s, << >>, b, i, ScanBreak(variant))
        en == CodeByte(s, b, "enc", i, indexToChannel[i])
        de == CodeByte(s, en.out, "dec", i, indexToChannel[i])
    IN  /\ sc.s = en.s
        /\ sc.h = count(<< >>, en.out)
        /\ de.s = en.s /\ de.out = b

(* C13: in every state of the scan and for every candidate index 1..14,    *)
(* the filter the scan applies to a byte is the filter the commit encode   *)
(* pass applies for that index (same residual counted, same state left),   *)
(* and the decode pass for that index inverts it: delta for 1..9, adaptive *)
(* for 10..14.                                                             *)
C13_FilterFamilyAgreement ==
    pc = "scan" =>
        \A i \in 1..14 : \A b \in ByteVals : ScoredAsCommitted(Regs, i, b)

(* C14: when the entropies have been computed, the divisor calcEntropy     *)
(* used (fileLength) is the total of each candidate's histogram, i.e. the  *)
(* number of bytes the scan read, so each candidate's probabilities sum    *)
(* to 1, also when the scan strode over parts of the file.                 *)
C14_DivisorIsSampledBytes ==
    chanEnt # << >> => \A i \in Candidates : HistTotal(freq[i]) = fileLength

(* C15: under SpecPair, for every candidate index 1..14 and every input,   *)
(* after each byte the encoder's lane counter, delta history, sample1 and  *)
(* sample2 of every lane and weight equal the decoder's after it has       *)
(* processed the corresponding byte of the payload.                        *)
C15_SameTrajectory ==
    pc = "pair" =>
        /\ decRegs.d = d
        /\ decRegs.previous = previous
        /\ decRegs.previousByte = previousByte
        /\ decRegs.secondPreviousByte = secondPreviousByte
        /\ decRegs.weight = weight
        /\ decRegs.routed = routed /\ routed = pos

C15_Witness ==
    /\ pc = "pair" /\ pos = Len(input) /\ pos > blocksize
    /\ channel >= breakpoint /\ ch > 1
    /\ weight < 0 /\ previousByte # ZeroLanes
    /\ decRegs.weight = weight /\ decRegs.previousByte = previousByte
    /\ outFile # input

\* the commit encode pass, resp. the decode pass, has read no byte yet
EncodeStart == mode = "e" /\ pc = "encode" /\ pos = 0 /\ Len(outFile) = 1
DecodeStart == mode = "d" /\ pc = "decode" /\ pos = 1 /\ outFile = << >>

(* C16: when the commit encode pass begins, after the scan of any input,   *)
(* and when a decode pass begins, the lane counter d is 0, the delta       *)
(* history and both samples of all 8 lanes are 0 and the weight is 0.      *)
C16_ZeroAtPassStart ==
    EncodeStart \/ DecodeStart =>
        /\ d = 0 /\ weight = 0
        /\ previous = ZeroLanes
        /\ previousByte = ZeroLanes
        /\ secondPreviousByte = ZeroLanes

C16_Witness ==
    /\ EncodeStart /\ chanEnt # << >>
    /\ Len(input) > blocksize /\ input[Len(input)] # 0
    /\ routed >= 14 * Len(input)
    /\ d = 0 /\ weight = 0 /\ previous = ZeroLanes /\ previousByte = ZeroLanes

(* C17: under SpecRouter, with d = 0 at the start and a channel count n in *)
(* 1..8, every value modulo() returns is a lane in 0..n-1 and so an index  *)
(* into the 8-entry lane arrays; the k-th call returns k mod n, i.e. the   *)
(* sequence is 1,2,...,n-1,0 repeated (constantly 0 for n = 1); and any n  *)
(* consecutive calls return every lane of 0..n-1.                          *)
C17_LaneSequence ==
    pc = "router" =>
        /\ ch \in 1..8
        /\ \A k \in 1..Len(laneSeq) :
               /\ laneSeq[k] \in 0..ch - 1 /\ laneSeq[k] \in Lanes
               /\ laneSeq[k] = k % ch
        /\ \A k \in 1..Len(laneSeq) - ch + 1 :
               {laneSeq[j] : j \in k..k + ch - 1} = 0..ch - 1
        /\ d = IF laneSeq = << >> THEN 0 ELSE laneSeq[Len(laneSeq)]

C17_Witness ==
    /\ pc = "router" /\ ch = 5
    /\ Len(laneSeq) = 12
    /\ SubSeq(laneSeq, 1, 6) = <<1, 2, 3, 4, 0, 1>>
    /\ {laneSeq[j] : j \in 8..12} = 0..4

\* a step that stays in the scan: the bytes it sampled are those candidate 0
\* counted; the position after the block and the position it leaves
StrideStep ==
    LET sampled == HistTotal(freq'[0]) - HistTotal(freq[0])
        p == pos + sampled
        stride == blocksize * boost
    IN  pc = "scan" /\ pc' = "scan" =>
            /\ pos' = IF p + stride < fileLength THEN p + stride ELSE p
            /\ pos' # p => pos' < fileLength /\ ~eofIn'
            /\ pos' # p => Min(blocksize, Len(input) - pos') >= 1
            /\ ~inErr' => sampled = Min(blocksize, Len(input) - pos)

(* C18: after a block has been scanned for all candidates the scan skips   *)
(* blocksize*boost bytes if and only if the position after the block plus  *)
(* blocksize*boost is strictly less than the file length; no stride lands  *)
(* at or past the end of the file, after every stride at least one byte is *)
(* left to read, the position never exceeds the file length, and, no read  *)
(* failing, every block read, the first one included, is sampled.          *)
C18_StrideRule ==
    /\ [][StrideStep]_vars
    /\ [](pc = "scan" => pos <= fileLength)
    /\ [](pc = "scan" /\ ~inErr /\ (pos > 0 \/ eofIn) =>
              HistTotal(freq[0]) >= Min(blocksize, fileLength))

C18_Witness ==
    /\ pc = "scan" /\ ~inErr /\ ~eofIn
    /\ pos = blocksize * (boost + 1) /\ pos < fileLength
    /\ HistTotal(freq[0]) = blocksize
    /\ fileLength = blocksize * (boost + 1) + 1

\* within one loop the read position does not move backwards
PassAdvances ==
    pc' = pc /\ pc \in {"scan", "encode", "decode"} => pos' >= pos

(* C19: under SpecLive every invocation ends: the scan loop, the commit    *)
(* encode loop and the decode loop each terminate for every input and main *)
(* returns (the decode of a stream with a header outside the table may end *)
(* in an access outside the lane arrays instead), and within a loop the    *)
(* read position never moves backwards.                                    *)
C19_PassesComplete ==
    /\ <>(pc \in {"exit", "ub"})
    /\ [][PassAdvances]_vars

\* the histogram count() builds from the bytes q[i..]
RECURSIVE HistSeq(_, _, _, _)
HistSeq(q, lo, hi, h) ==
    IF lo > hi THEN h
    ELSE IF lo = hi THEN count(h, q[lo])
    ELSE LET mid == (lo + hi) \div 2
             g == HistSeq(q, lo, mid, h)
         IN  Eager(g, HistSeq(q, mid + 1, hi, g))

HistFrom(q, i, h) == HistSeq(q, i, Len(q), h)

\* the payload the commit encode pass writes for index i, from reset state
CommitPayload(q, i) == CodeBlock(FreshRegs, q, "enc", i, indexToChannel[i]).out

(* C20: for an input of at most one block, the histogram the scan has      *)
(* accumulated for each candidate index i is the byte-value histogram of   *)
(* the payload the commit encode pass writes for index i, and the          *)
(* candidates 1 and 9 (both delta with one channel) have equal histograms. *)
C20_ScanFidelity ==
    mode = "e" /\ chanEnt # << >> /\ Len(input) <= blocksize =>
        /\ \A i \in Candidates :
               freq[i] = HistFrom(CommitPayload(input, i), 1, << >>)
        /\ freq[1] = freq[9]

====
